---- MODULE Spec2Model ----
(***************************************************************************)
(* A model of rust-storage-bench's worker: the instrumented store          *)
(* (src/worker/db.rs), the workload state machines, the metrics thread and *)
(* the killer thread (src/worker/main.rs).                                 *)
(*                                                                         *)
(* Keys and values are byte sequences (sequences of numbers 0..255), as in *)
(* the program.  Every atomic access to a shared counter is one step of    *)
(* the thread that makes it; steps of different threads interleave freely. *)
(***************************************************************************)
EXTENDS Integers, Sequences, FiniteSets, TLC

(***************************************************************************)
(* Bounds of the model.                                                    *)
(***************************************************************************)
\* args.threads: the number of users/streams
Threads == 2
\* args.items: records loaded per user
Items == 2
\* loop iterations a stream runs before the model stops following it
MaxOps == 2
\* the same, where the streams run beside other threads that the model follows
\* step by step
ShortRun == 1
\* sampling ticks the model follows
MaxTicks == 2
\* the period of Redb's forced durable commit, in writes.  db.rs:170 has 10_000;
\* the model follows a short period so that several periods fit in MaxOps.
RedbSyncPeriod == 3
\* args.value_size: the bytes of a value
ValueSize == 1
\* args.minutes: run durations of 1..MaxMinutes minutes
MaxMinutes == 3
\* the bytes of the model's compressible text (shakespere.txt is longer)
TextLen == 2
\* map_key is tabulated for 0..MapKeyRange and for the numbers next to the
\* powers of two
MapKeyRange == 32

(***************************************************************************)
(* Program constants.                                                      *)
(***************************************************************************)
\* lib.rs:124, the default of --key-size
DefaultKeySize == 64
\* main.rs:442, the width of {x:0>10}
KeyPadWidth == 10
\* main.rs:435, the width of {idx:0>2}
UserPadWidth == 2
\* main.rs:640, the limit handed to every scan
ScanLimit == 10
\* lib.rs:164, the default of --minutes
DefaultMinutes == 1

Backends == {"RocksDb", "Heed", "Nebari", "Fjall", "Sled", "Jamm", "Persy", "Redb", "CanopyDb"}
Workloads == {"TaskA", "TaskB", "TaskC", "TaskD", "TaskE", "TaskF", "TaskG", "TaskH"}

(***************************************************************************)
(* u32 values.  TLC's integers are 32-bit signed, so a u32 is kept as its  *)
(* four bytes, least significant first, and Wrapping<u32> arithmetic is    *)
(* done byte by byte.                                                      *)
(***************************************************************************)
\* a u32 from a number below 2^31
ToU32(n) == <<n % 256, (n \div 256) % 256, (n \div 65536) % 256, (n \div 16777216) % 256>>

RECURSIVE XorBits(_, _, _)
XorBits(a, b, n) ==
    IF n = 0 THEN 0
    ELSE ((a + b) % 2) + 2 * XorBits(a \div 2, b \div 2, n - 1)

\* h ^ g
Xor32(h, g) == [i \in 1..4 |-> XorBits(h[i], g[i], 8)]

\* h >> 16
Shr16(h) == <<h[3], h[4], 0, 0>>

\* h >> 13
Shr13(h) ==
    LET hi == h[4] * 256 + h[3]
        lo == h[2] * 256 + h[1]
    IN  ToU32(hi * 8 + (lo \div 8192))

\* Wrapping<u32> multiplication: the low 32 bits of the product
WrappingMul(a, c) ==
    LET t1 == a[1] * c[1]
        t2 == a[1] * c[2] + a[2] * c[1] + (t1 \div 256)
        t3 == a[1] * c[3] + a[2] * c[2] + a[3] * c[1] + (t2 \div 256)
        t4 == a[1] * c[4] + a[2] * c[3] + a[3] * c[2] + a[4] * c[1] + (t3 \div 256)
    IN  <<t1 % 256, t2 % 256, t3 % 256, t4 % 256>>

\* 0x85ebca6b
MurmurC1 == <<107, 202, 235, 133>>
\* 0xc2b2ae35
MurmurC2 == <<53, 174, 178, 194>>

\* a mixer whose first step is h = h >> 16 in the place of h ^= h >> 16
ShiftOnlyMapKey(random, k) ==
    IF random
    THEN LET h0 == ToU32(k)
             h1 == Shr16(h0)
             h2 == WrappingMul(h1, MurmurC1)
             h3 == Xor32(h2, Shr13(h2))
             h4 == WrappingMul(h3, MurmurC2)
         IN  Xor32(h4, Shr16(h4))
    ELSE ToU32(k)

\* map_key: the identity, or (--random) murmur3's 32-bit finalizer
map_key(random, k) ==
    IF random
    THEN LET h0 == ToU32(k)
             h1 == Xor32(h0, Shr16(h0))
             h2 == WrappingMul(h1, MurmurC1)
             h3 == Xor32(h2, Shr13(h2))
             h4 == WrappingMul(h3, MurmurC2)
         IN  Xor32(h4, Shr16(h4))
    ELSE ToU32(k)

(***************************************************************************)
(* Byte strings.                                                           *)
(***************************************************************************)
RECURSIVE Decimal(_)
\* Display of a small unsigned integer: its decimal digits as ASCII bytes
Decimal(n) == IF n < 10 THEN <<48 + n>> ELSE Decimal(n \div 10) \o <<48 + (n % 10)>>

\* a u32 divided by 10: quotient (a u32) and remainder, by long division
DivMod10(h) ==
    LET c4 == h[4]
        c3 == (c4 % 10) * 256 + h[3]
        c2 == (c3 % 10) * 256 + h[2]
        c1 == (c2 % 10) * 256 + h[1]
    IN  [q |-> <<c1 \div 10, c2 \div 10, c3 \div 10, c4 \div 10>>, r |-> c1 % 10]

RECURSIVE DecimalU32(_)
\* Display of a u32
DecimalU32(h) ==
    LET d == DivMod10(h)
    IN  IF d.q = <<0, 0, 0, 0>> THEN <<48 + d.r>>
        ELSE DecimalU32(d.q) \o <<48 + d.r>>

RECURSIVE PadLeft(_, _)
\* {:0>w}: fill with '0' on the left up to w bytes; longer strings are kept whole
PadLeft(s, w) == IF Len(s) >= w THEN s ELSE PadLeft(<<48>> \o s, w)

\* every stream under the first partition's label
SharedUserId(idx) == <<117, 115, 101, 114>> \o PadLeft(Decimal(0), UserPadWidth)

\* format!("user{idx:0>2}")
UserId(idx) == <<117, 115, 101, 114>> \o PadLeft(Decimal(idx), UserPadWidth)

\* format!("{user_id}:{x:0>10}")
PaddedKey(user_id, x) == user_id \o <<58>> \o PadLeft(DecimalU32(x), KeyPadWidth)

\* format!("{user_id}:{x}")
PlainKey(user_id, x) == user_id \o <<58>> \o DecimalU32(x)

\* (x as u64).to_be_bytes()
U64BeBytes(x) == <<0, 0, 0, 0, x[4], x[3], x[2], x[1]>>

\* key.len(), val.len()
ByteLen(s) == Len(s)

\* the three ways main.rs builds a key from a record number k:
\*   "padded"  format!("{user_id}:{x:0>10}") with x = map_key(k)   (main.rs:442)
\*   "plain"   format!("{user_id}:{x}")      with x = map_key(k)   (main.rs:696)
\*   "flat"    (map_key(k) as u64).to_be_bytes()                   (main.rs:563)
\* A scan's start key is "padded" without map_key (main.rs:637).
MakeKey(form, random, idx, k) ==
    CASE form = "padded" -> PaddedKey(UserId(idx), map_key(random, k))
      [] form = "plain"  -> PlainKey(UserId(idx), map_key(random, k))
      [] form = "flat"   -> U64BeBytes(map_key(random, k))

\* the record numbers a run of the model can reach: the load phase holds Items
\* or ScanLimit records for each user
MaxRecord == Items + ScanLimit + MaxOps

\* MakeKey, tabulated once for the record numbers the model reaches
KeyTable ==
    [form \in {"padded", "plain", "flat"}, random \in BOOLEAN,
     idx \in 0..(Threads - 1), k \in 0..MaxRecord |-> MakeKey(form, random, idx, k)]

Key(form, random, idx, k) == KeyTable[form, random, idx, k]

(***************************************************************************)
(* String::from_utf8_lossy, as the Persy arms apply it to a key: valid     *)
(* UTF-8 is kept, every maximal invalid part becomes U+FFFD (EF BF BD).    *)
(***************************************************************************)
IsCont(s, i) == i <= Len(s) /\ s[i] >= 128 /\ s[i] <= 191

InRange(s, i, lo, hi) == i <= Len(s) /\ s[i] >= lo /\ s[i] <= hi

\* the number of bytes of the chunk starting at s[i], and whether it is valid
Utf8Chunk(s, i) ==
    LET b == s[i]
        second3 == CASE b = 224 -> InRange(s, i + 1, 160, 191)
                     [] b = 237 -> InRange(s, i + 1, 128, 159)
                     [] OTHER   -> IsCont(s, i + 1)
        second4 == CASE b = 240 -> InRange(s, i + 1, 144, 191)
                     [] b = 244 -> InRange(s, i + 1, 128, 143)
                     [] OTHER   -> IsCont(s, i + 1)
    IN  CASE b < 128 -> [n |-> 1, ok |-> TRUE]
          [] b >= 194 /\ b <= 223 ->
                IF IsCont(s, i + 1) THEN [n |-> 2, ok |-> TRUE] ELSE [n |-> 1, ok |-> FALSE]
          [] b >= 224 /\ b <= 239 ->
                IF ~second3 THEN [n |-> 1, ok |-> FALSE]
                ELSE IF ~IsCont(s, i + 2) THEN [n |-> 2, ok |-> FALSE]
                ELSE [n |-> 3, ok |-> TRUE]
          [] b >= 240 /\ b <= 244 ->
                IF ~second4 THEN [n |-> 1, ok |-> FALSE]
                ELSE IF ~IsCont(s, i + 2) THEN [n |-> 2, ok |-> FALSE]
                ELSE IF ~IsCont(s, i + 3) THEN [n |-> 3, ok |-> FALSE]
                ELSE [n |-> 4, ok |-> TRUE]
          [] OTHER -> [n |-> 1, ok |-> FALSE]

RECURSIVE Utf8LossyFrom(_, _)
Utf8LossyFrom(s, i) ==
    IF i > Len(s) THEN <<>>
    ELSE LET c == Utf8Chunk(s, i)
         IN  (IF c.ok THEN SubSeq(s, i, i + c.n - 1) ELSE <<239, 191, 189>>)
                \o Utf8LossyFrom(s, i + c.n)

Utf8Lossy(s) == Utf8LossyFrom(s, 1)

(***************************************************************************)
(* State.                                                                  *)
(***************************************************************************)
VARIABLES
    args,      \* the parsed Args (lib.rs:109): fixed after Init
    scope,     \* what the environment may supply: elapsed times, value bytes
    mem,       \* what the engine answers reads from: key -> value
    disk,      \* what the engine has made durable: key -> value
    db,        \* the DatabaseWrapper's atomics (db.rs:10)
    pc,        \* where each thread is: the streams 0..threads-1 and the main thread
    call,      \* each thread's current insert/get/scan call: arguments and locals
    records,   \* each stream's `records` counter
    iters,     \* loop iterations each thread has started in the run phase
    load,      \* the main thread's load loop: idx, x
    met,       \* the metrics thread: its position and locals
    log,       \* the "type" of each record the metrics thread has written, in order
    process,   \* "running", "armed" (start_killer called), "exited" (process::exit)
               \* or "crashed" (the machine lost power)
    hist       \* history of the run, read only by the properties

vars == <<args, scope, mem, disk, db, pc, call, records, iters, load, met, log, process, hist>>

Streams == 0..(Threads - 1)
Main == Threads
Procs == Streams \cup {Main}

\* include_bytes!("../../shakespere.txt")
SHAKESPERE == [i \in 1..TextLen |-> 96 + i]

\* <&mut [u8] as Write>::write(src): the bytes it copies into a slice with
\* `room` bytes left, as many as fit
WriteSlice(room, src) == SubSeq(src, 1, IF room < Len(src) THEN room ELSE Len(src))

\* offsets drawn from 0..=SHAKESPERE.len()
FillOffsetsInclusive == 0..TextLen

\* main.rs:48: rng.gen_range(0..SHAKESPERE.len())
FillOffsets == 0..(TextLen - 1)

RECURSIVE FillFrom(_, _, _, _, _)
\* main.rs:45-50: the loop of the compressible mode over a buffer of n bytes,
\* of which `done` are written, followed for at most `fuel` more iterations
FillFrom(n, done, iter, stalled, fuel) ==
    IF Len(done) = n
    THEN {[val |-> done, iters |-> iter, stalled |-> stalled, ended |-> TRUE]}
    ELSE IF fuel = 0
    THEN {[val |-> done \o [i \in 1..(n - Len(done)) |-> 0], iters |-> iter,
           stalled |-> stalled, ended |-> FALSE]}
    ELSE UNION {LET chunk == WriteSlice(n - Len(done), SubSeq(SHAKESPERE, off + 1, TextLen))
                IN  FillFrom(n, done \o chunk, iter + 1, stalled \/ chunk = <<>>, fuel - 1)
                : off \in FillOffsets}

\* main.rs:42-54: the runs of fill_value over vec![0; n]
fill_value(compressible, n) ==
    IF compressible
    THEN FillFrom(n, <<>>, 0, FALSE, n)
    ELSE {[val |-> v, iters |-> 0, stalled |-> FALSE, ended |-> TRUE] :
             v \in [1..n -> scope.letters]}

\* fill_value's output when it returns
Values(n) == {r.val : r \in {x \in fill_value(args.compressible_value, n) : x.ended}}

\* start.elapsed(): the time one call took
Elapsed == scope.elapsed

NoItem == <<>>
NoCall == [kind |-> "none", key |-> <<>>, val |-> <<>>, durable |-> FALSE,
           sync |-> FALSE, append |-> FALSE, phase |-> "none", item |-> NoItem,
           found |-> {}, id |-> <<0, 0>>]

\* the call a thread starts: its arguments, and what the caller does with the result
NewCall(p, kind, key, val, durable, append, phase) ==
    [kind |-> kind, key |-> key, val |-> val, durable |-> durable, sync |-> FALSE,
     append |-> append, phase |-> phase, item |-> NoItem, found |-> {},
     id |-> <<p, hist.ncalls[p] + 1>>]

Put(m, k, v) == [x \in (DOMAIN m) \cup {k} |-> IF x = k THEN v ELSE m[x]]

(***************************************************************************)
(* The backend arms of DatabaseWrapper::insert and ::get.                  *)
(***************************************************************************)
\* the key the arm stores under / looks up
ArmKey(backend, key) == IF backend = "Persy" THEN Utf8Lossy(key) ELSE key

\* the value the arm stores
ArmValue(backend, key, value) == IF backend = "Nebari" THEN key ELSE value

\* SyncInCommit with Persy's background sync switched on by `durable` instead of
\* by its negation (db.rs:153)
SyncInCommitPersyInverted(backend, durable, write_ops) ==
    CASE backend \in {"Heed", "Nebari", "Jamm"} -> TRUE
      [] backend = "Persy" -> ~durable
      [] backend = "Redb"  -> durable \/ (write_ops % RedbSyncPeriod = 0)
      [] OTHER -> FALSE

\* the arm's write is made durable by the same call that makes it visible
\* (a transaction commit)
SyncInCommit(backend, durable, write_ops) ==
    CASE backend \in {"Heed", "Nebari", "Jamm"} -> TRUE
      [] backend = "Persy" -> durable
      [] backend = "Redb"  -> durable \/ (write_ops % RedbSyncPeriod = 0)
      [] OTHER -> FALSE

\* the arm calls the engine's flush/persist/sync after the write
SyncAfterWrite(backend, durable) ==
    backend \in {"RocksDb", "Fjall", "Sled", "CanopyDb"} /\ durable

\* the arm adds its own elapsed time to write_latency (db.rs:78, db.rs:93)
ArmAddsLatency(backend) == backend \in {"RocksDb", "Heed"}

\* GenericDatabase::get's arms
Lookup(backend, m, key) ==
    LET k == ArmKey(backend, key)
    IN  IF k \in DOMAIN m THEN <<m[k]>> ELSE NoItem

\* a plain store of the operand in the place of fetch_add
StoreOperand(cur, d) == d

\* AtomicU64::fetch_add: the new value
FetchAdd(cur, d) == cur + d

\* fetch_max in the place of fetch_min: the accumulator is read but not reset
FetchMax(cur, v) == [ret |-> cur, new |-> IF cur > v THEN cur ELSE v]

\* AtomicU64::fetch_min: the value returned and the value left
FetchMin(cur, v) == [ret |-> cur, new |-> IF cur < v THEN cur ELSE v]

\* the process lives until process::exit (main.rs:31) or a panic of the main thread
Running == process \in {"running", "armed"} /\ pc[Main] # "panicked"

(***************************************************************************)
(* DatabaseWrapper::insert, one step per engine call or atomic access.     *)
(***************************************************************************)
\* db.rs:67-196: the arm's write (for a transactional engine, its commit)
InsertWrite(p) ==
    /\ Running
    /\ pc[p] = "ins_write"
    /\ LET c == call[p]
           inCommit == SyncInCommit(args.backend, c.durable, db.write_ops)
           m2 == Put(mem, ArmKey(args.backend, c.key), ArmValue(args.backend, c.key, c.val))
       IN  /\ mem' = m2
           /\ disk' = IF inCommit THEN m2 ELSE disk
           /\ call' = [call EXCEPT ![p].sync = inCommit]
           /\ pc' = [pc EXCEPT ![p] =
                        IF SyncAfterWrite(args.backend, c.durable) THEN "ins_sync"
                        ELSE IF ArmAddsLatency(args.backend) THEN "ins_armlat"
                        ELSE "ins_lat"]
           /\ hist' = [hist EXCEPT
                        !.written = Put(@, c.key, c.val),
                        !.redb_run = IF args.backend # "Redb" THEN @
                                     ELSE IF inCommit THEN 0 ELSE @ + 1]
    /\ UNCHANGED <<args, scope, db, records, iters, load, met, log, process>>

\* db.rs:75, 112, 119, 193: flush_wal / persist / flush / sync
InsertSync(p) ==
    /\ Running
    /\ pc[p] = "ins_sync"
    /\ disk' = mem
    /\ call' = [call EXCEPT ![p].sync = TRUE]
    /\ pc' = [pc EXCEPT ![p] = IF ArmAddsLatency(args.backend) THEN "ins_armlat" ELSE "ins_lat"]
    /\ UNCHANGED <<args, scope, mem, db, records, iters, load, met, log, process, hist>>

\* db.rs:78-81, 93-96: the RocksDb and Heed arms' own write_latency.fetch_add
InsertArmLatency(p) ==
    /\ Running
    /\ pc[p] = "ins_armlat"
    /\ \E d \in Elapsed :
          /\ db' = [db EXCEPT !.write_latency = FetchAdd(@, d)]
          /\ hist' = [hist EXCEPT !.added.w = @ + d,
                                  !.in_acc = @ \cup {<<"w", call[p].id, 1>>}]
    /\ pc' = [pc EXCEPT ![p] = "ins_lat"]
    /\ UNCHANGED <<args, scope, mem, disk, call, records, iters, load, met, log, process>>

\* db.rs:198-201: write_latency.fetch_add(elapsed)
InsertLatency(p) ==
    /\ Running
    /\ pc[p] = "ins_lat"
    /\ \E d \in Elapsed :
          /\ db' = [db EXCEPT !.write_latency = FetchAdd(@, d)]
          /\ hist' = [hist EXCEPT !.added.w = @ + d,
                                  !.in_acc = @ \cup {<<"w", call[p].id, 2>>}]
    /\ pc' = [pc EXCEPT ![p] = "ins_count"]
    /\ UNCHANGED <<args, scope, mem, disk, call, records, iters, load, met, log, process>>

\* db.rs:202-204: write_ops.fetch_add(1), and the return to the caller
InsertCount(p) ==
    /\ Running
    /\ pc[p] = "ins_count"
    /\ db' = [db EXCEPT !.write_ops = FetchAdd(@, 1)]
    /\ hist' = [hist EXCEPT !.done[p].w = @ + 1,
                            !.uncounted = @ \cup {<<"w", call[p].id>>},
                            !.durable_keys = IF call[p].durable
                                             THEN @ \cup {ArmKey(args.backend, call[p].key)}
                                             ELSE @]
    /\ pc' = [pc EXCEPT ![p] = IF call[p].phase = "api" THEN "api"
                               ELSE IF call[p].append THEN "size_add" ELSE "loop"]
    /\ UNCHANGED <<args, scope, mem, disk, call, records, iters, load, met, log, process>>

(***************************************************************************)
(* DatabaseWrapper::get.                                                   *)
(***************************************************************************)
\* db.rs:209-255: the arm's read
GetRead(p) ==
    /\ Running
    /\ pc[p] = "get_read"
    /\ call' = [call EXCEPT ![p].item = Lookup(args.backend, mem, call[p].key)]
    /\ pc' = [pc EXCEPT ![p] = "get_lat"]
    /\ UNCHANGED <<args, scope, mem, disk, db, records, iters, load, met, log, process, hist>>

\* db.rs:257-260: read_latency.fetch_add(elapsed)
GetLatency(p) ==
    /\ Running
    /\ pc[p] = "get_lat"
    /\ \E d \in Elapsed :
          /\ db' = [db EXCEPT !.read_latency = FetchAdd(@, d)]
          /\ hist' = [hist EXCEPT !.added.r = @ + d,
                                  !.in_acc = @ \cup {<<"r", call[p].id, 2>>}]
    /\ pc' = [pc EXCEPT ![p] = "get_count"]
    /\ UNCHANGED <<args, scope, mem, disk, call, records, iters, load, met, log, process>>

\* get's last step with insert's counter in the place of its own
GetCountsAsWrite(p) ==
    /\ Running
    /\ pc[p] = "get_count"
    /\ db' = [db EXCEPT !.write_ops = FetchAdd(@, 1)]
    /\ hist' = [hist EXCEPT !.done[p].r = @ + 1,
                            !.uncounted = @ \cup {<<"r", call[p].id>>}]
    /\ pc' = [pc EXCEPT ![p] = IF call[p].phase = "api" THEN "api"
                               ELSE IF call[p].item = NoItem THEN "panicked" ELSE "loop"]
    /\ UNCHANGED <<args, scope, mem, disk, call, records, iters, load, met, log, process>>

\* db.rs:261-264: read_ops.fetch_add(1), the return, and the caller's unwrap()
GetCount(p) ==
    /\ Running
    /\ pc[p] = "get_count"
    /\ db' = [db EXCEPT !.read_ops = FetchAdd(@, 1)]
    /\ hist' = [hist EXCEPT !.done[p].r = @ + 1,
                            !.uncounted = @ \cup {<<"r", call[p].id>>}]
    /\ pc' = [pc EXCEPT ![p] = IF call[p].phase = "api" THEN "api"
                               ELSE IF call[p].item = NoItem THEN "panicked" ELSE "loop"]
    /\ UNCHANGED <<args, scope, mem, disk, call, records, iters, load, met, log, process>>

(***************************************************************************)
(* DatabaseWrapper::scan.  main.rs calls it (main.rs:640) and the metrics  *)
(* thread reads scan_ops and scan_latency (main.rs:336, 354); its body is  *)
(* not in db.rs, so it follows the contract: up to `limit` records with    *)
(* key >= start in ascending key order, counted and timed like get.        *)
(***************************************************************************)
RECURSIVE LexLess(_, _)
\* byte-wise lexicographic order of keys: a < b
LexLess(a, b) ==
    IF b = <<>> THEN FALSE
    ELSE IF a = <<>> THEN TRUE
    ELSE IF a[1] # b[1] THEN a[1] < b[1]
    ELSE LexLess(Tail(a), Tail(b))

ScanResult(m, start, limit) ==
    LET from == {k \in DOMAIN m : ~LexLess(k, start)}
    IN  {k \in from : Cardinality({j \in from : LexLess(j, k)}) < limit}

ScanRead(p) ==
    /\ Running
    /\ pc[p] = "scan_read"
    /\ call' = [call EXCEPT ![p].found = ScanResult(mem, call[p].key, ScanLimit)]
    /\ pc' = [pc EXCEPT ![p] = "scan_lat"]
    /\ UNCHANGED <<args, scope, mem, disk, db, records, iters, load, met, log, process, hist>>

ScanLatency(p) ==
    /\ Running
    /\ pc[p] = "scan_lat"
    /\ \E d \in Elapsed :
          /\ db' = [db EXCEPT !.scan_latency = FetchAdd(@, d)]
          /\ hist' = [hist EXCEPT !.added.s = @ + d,
                                  !.in_acc = @ \cup {<<"s", call[p].id, 2>>}]
    /\ pc' = [pc EXCEPT ![p] = "scan_count"]
    /\ UNCHANGED <<args, scope, mem, disk, call, records, iters, load, met, log, process>>

ScanCount(p) ==
    /\ Running
    /\ pc[p] = "scan_count"
    /\ db' = [db EXCEPT !.scan_ops = FetchAdd(@, 1)]
    /\ hist' = [hist EXCEPT !.done[p].s = @ + 1,
                            !.uncounted = @ \cup {<<"s", call[p].id>>}]
    /\ pc' = [pc EXCEPT ![p] = "loop"]
    /\ UNCHANGED <<args, scope, mem, disk, call, records, iters, load, met, log, process>>

(***************************************************************************)
(* main: startup, the load phase, spawning the streams, the killer.         *)
(***************************************************************************)
Partitioned(w) == w # "TaskC"

\* a load phase that passes args.fsync, as the run phase does
LoadWithFsync(fsync) == fsync

\* the durable argument of every load-phase insert (main.rs:445, 568, ...)
LoadDurable(fsync) == FALSE

\* a run phase that never asks for durability, as the load phase does
RunNeverDurable(fsync) == FALSE

\* the durable argument of every run-phase insert (main.rs:477, 632, ...)
RunDurable(fsync) == fsync

\* the key of load item x of user idx (main.rs:442, 563)
LoadKey(w, random, idx, x) ==
    IF Partitioned(w) THEN Key("padded", random, idx, x)
    ELSE Key("flat", random, 0, x)

\* a start that arms the killer thread before the load phase
MainStartArms ==
    /\ pc[Main] = "start"
    /\ pc' = [pc EXCEPT ![Main] = "load"]
    /\ met' = [met EXCEPT !.pc = "create"]
    /\ process' = "armed"
    /\ UNCHANGED <<args, scope, mem, disk, db, call, records, iters, load, log, hist>>

\* main.rs:66-70, then the store is opened and the metrics thread spawned
\* (main.rs:72-269)
MainStart ==
    /\ pc[Main] = "start"
    /\ IF args.workload # "TaskC" /\ args.fsync /\ args.backend = "Sled"
       THEN /\ pc' = [pc EXCEPT ![Main] = "panicked"]
            /\ UNCHANGED met
       ELSE /\ pc' = [pc EXCEPT ![Main] = "load"]
            /\ met' = [met EXCEPT !.pc = "create"]
    /\ UNCHANGED <<args, scope, mem, disk, db, call, records, iters, load, log, process, hist>>

\* a load loop that stops one user short in the partitioned workloads
LoadOneUser == IF Partitioned(args.workload) THEN args.threads - 1 ELSE 1

\* the users the load loop covers: 0..users, or the single flat keyspace of TaskC
LoadUsers == IF Partitioned(args.workload) THEN args.threads ELSE 1

\* main.rs:434-445 (and the same loop of every workload): the next load insert,
\* or the end of the load phase
MainLoad ==
    /\ Running
    /\ pc[Main] = "load"
    /\ IF load.idx < LoadUsers /\ load.x < args.items
       THEN \E v \in Values(args.value_size) :
              /\ call' = [call EXCEPT ![Main] =
                            NewCall(Main, "insert",
                                    LoadKey(args.workload, args.random, load.idx, load.x),
                                    v, LoadDurable(args.fsync), TRUE, "load")]
              /\ hist' = [hist EXCEPT !.ncalls[Main] = @ + 1,
                                      !.load_flags = @ \cup {LoadDurable(args.fsync)},
                                      !.load_keys = @ \cup
                                         {LoadKey(args.workload, args.random, load.idx, load.x)}]
              /\ pc' = [pc EXCEPT ![Main] = "ins_write"]
              /\ UNCHANGED load
       ELSE IF load.idx < LoadUsers
       THEN /\ load' = [load EXCEPT !.idx = @ + 1, !.x = 0]
            /\ UNCHANGED <<pc, call, hist>>
       ELSE /\ pc' = [pc EXCEPT ![Main] = IF Partitioned(args.workload) THEN "spawn" ELSE "arm"]
            /\ hist' = [hist EXCEPT !.loaded = TRUE]
            /\ UNCHANGED <<load, call>>
    /\ UNCHANGED <<args, scope, mem, disk, db, records, iters, met, log, process>>

\* main.rs:446-447, 633-635: real_data_size.fetch_add(key.len() + val.len()),
\* then the load loop's next x or the stream's records += 1
SizeAdd(p) ==
    /\ Running
    /\ pc[p] = "size_add"
    /\ db' = [db EXCEPT !.real_data_size =
                FetchAdd(@, ByteLen(call[p].key) + ByteLen(call[p].val))]
    /\ IF call[p].phase = "load"
       THEN /\ load' = [load EXCEPT !.x = @ + 1]
            /\ pc' = [pc EXCEPT ![p] = "load"]
            /\ UNCHANGED records
       ELSE /\ records' = [records EXCEPT ![p] = @ + 1]
            /\ pc' = [pc EXCEPT ![p] = "loop"]
            /\ UNCHANGED load
    /\ UNCHANGED <<args, scope, mem, disk, call, iters, met, log, process, hist>>

\* main.rs:452-484: std::thread::spawn of the next stream
MainSpawn ==
    /\ Running
    /\ pc[Main] = "spawn"
    /\ IF load.spawned < args.threads
       THEN /\ pc' = [pc EXCEPT ![load.spawned] = "begin"]
            /\ records' = [records EXCEPT ![load.spawned] = args.items]
            /\ load' = [load EXCEPT !.spawned = @ + 1]
       ELSE /\ pc' = [pc EXCEPT ![Main] = "arm"]
            /\ UNCHANGED <<records, load>>
    /\ UNCHANGED <<args, scope, mem, disk, db, call, iters, met, log, process, hist>>

\* main.rs:486, 573: start_killer(args.minutes); TaskC then reads on the main thread
MainArm ==
    /\ Running
    /\ pc[Main] = "arm"
    /\ process' = "armed"
    /\ pc' = [pc EXCEPT ![Main] = IF Partitioned(args.workload) THEN "join" ELSE "begin"]
    /\ UNCHANGED <<args, scope, mem, disk, db, call, records, iters, load, met, log, hist>>

\* main.rs:488-490: t.join().unwrap() on the threads in spawn order.  A stream
\* only ever ends by panicking, so the loop never gets past the first join: it
\* returns when stream 0 has panicked, and the unwrap then panics the main thread
MainJoin ==
    /\ Running
    /\ pc[Main] = "join"
    /\ pc[0] = "panicked"
    /\ pc' = [pc EXCEPT ![Main] = "panicked"]
    /\ UNCHANGED <<args, scope, mem, disk, db, call, records, iters, load, met, log, process, hist>>

\* a supervisor that waits until no stream is inside an operation
KillerWaitsForStreams ==
    /\ Running
    /\ process = "armed"
    /\ \A s \in Procs : pc[s] \in {"unborn", "begin", "loop", "join", "panicked"}
    /\ process' = "exited"
    /\ UNCHANGED <<args, scope, mem, disk, db, pc, call, records, iters, load, met, log, hist>>

\* main.rs:28-33: the killer thread's sleep ends and it calls process::exit(0)
KillerFire ==
    /\ Running
    /\ process = "armed"
    /\ process' = "exited"
    /\ UNCHANGED <<args, scope, mem, disk, db, pc, call, records, iters, load, met, log, hist>>

(***************************************************************************)
(* The run phase: one loop iteration of a stream starts one call.          *)
(***************************************************************************)
\* ZipfDistribution::new(n, exponent) is an error for n = 0
ZipfNew(n) == n >= 1

\* samples that start at 0
ZipfFromZero(n) == 0..n

\* zipf.sample(): 1..n
ZipfSamples(n) == 1..n

\* u32::saturating_sub
SatSub(a, b) == IF a < b THEN 0 ELSE a - b

\* main.rs:906-940: what a value of TaskH's `choice` (0..100) selects
HOp(choice) ==
    IF choice < 50 THEN "read"
    ELSE IF choice < 70 THEN "scan"
    ELSE IF choice >= 80 THEN "append"
    ELSE "overwrite"

\* the operations a loop iteration of the workload can pick
Ops(w) ==
    CASE w \in {"TaskA", "TaskB"} -> {"write", "read"}
      [] w = "TaskC" -> {"read"}
      [] w \in {"TaskD", "TaskE"} -> {"append", "scan"}
      [] w \in {"TaskF", "TaskG"} -> {"append", "read"}
      [] w = "TaskH" -> {HOp(c) : c \in 0..99}

\* the iteration builds a ZipfDistribution over records - 1 (main.rs:771, 910, 924, 943)
BuildsZipf(w, op) ==
    \/ w \in {"TaskF", "TaskG"} /\ op = "read"
    \/ w = "TaskH" /\ op \in {"read", "scan", "overwrite"}

\* the keys the operation can be issued on, for a stream of user idx whose
\* counter is r
Targets(w, random, items, idx, r, op) ==
    CASE op = "append" ->
           IF w = "TaskE" THEN {Key("plain", random, idx, r)}
           ELSE {Key("padded", random, idx, r)}
      [] op \in {"write", "read"} /\ w \in {"TaskA", "TaskB"} ->
           {Key("padded", random, idx, x) : x \in ZipfSamples(items - 1)}
      [] op = "read" /\ w = "TaskC" ->
           {Key("flat", random, 0, x) : x \in ZipfSamples(items - 1)}
      [] op \in {"read", "overwrite"} ->
           {Key("padded", random, idx, r - z) : z \in ZipfSamples(r - 1)}
      [] op = "scan" /\ w = "TaskD" -> {Key("padded", FALSE, idx, SatSub(r, 10))}
      [] op = "scan" /\ w = "TaskE" -> {Key("padded", FALSE, idx, SatSub(r, 11))}
      [] op = "scan" ->
           {Key("padded", random, idx, SatSub(r - z, 10)) : z \in ZipfSamples(r - 1)}

\* main.rs:461-463, 575-576: TaskA, TaskB and TaskC build their ZipfDistribution
\* over items - 1 once, before the loop
StreamBegin(p) ==
    /\ Running
    /\ pc[p] = "begin"
    /\ pc' = [pc EXCEPT ![p] =
                IF args.workload \in {"TaskA", "TaskB", "TaskC"} /\ ~ZipfNew(args.items - 1)
                THEN "panicked" ELSE "loop"]
    /\ UNCHANGED <<args, scope, mem, disk, db, call, records, iters, load, met, log, process, hist>>

RECURSIVE SumOver(_, _)
\* the sum of f over the threads in S
SumOver(f, S) ==
    IF S = {} THEN 0
    ELSE LET p == CHOOSE q \in S : TRUE IN f[p] + SumOver(f, S \ {p})

\* every write of the run phase followed by the fetch_add on real_data_size
AddsSizeOnEveryWrite(op) == op \in {"append", "write", "overwrite"}

\* main.rs:633-636, 955-959: the run-phase inserts followed by
\* real_data_size.fetch_add and records += 1 (in TaskH under `if is_insert`);
\* the writes of TaskA and TaskB (main.rs:477, 542) are followed by neither
AddsSize(op) == op = "append"

\* one iteration of the stream's loop, up to the call it makes
StreamLoop(p) ==
    /\ Running
    /\ pc[p] = "loop"
    /\ iters[p] < scope.ops
    /\ SumOver(iters, Procs) < scope.total
    /\ iters' = [iters EXCEPT ![p] = @ + 1]
    /\ \E op \in Ops(args.workload) :
          IF BuildsZipf(args.workload, op) /\ ~ZipfNew(records[p] - 1)
          THEN /\ pc' = [pc EXCEPT ![p] = "panicked"]
               /\ UNCHANGED <<call, hist>>
          ELSE \E key \in Targets(args.workload, args.random, args.items, p, records[p], op) :
                 \/ /\ op \in {"append", "write", "overwrite"}
                    /\ \E v \in Values(args.value_size) :
                          call' = [call EXCEPT ![p] =
                                     NewCall(p, "insert", key, v, RunDurable(args.fsync),
                                             AddsSize(op), "run")]
                    /\ pc' = [pc EXCEPT ![p] = "ins_write"]
                    /\ hist' = [hist EXCEPT !.ncalls[p] = @ + 1,
                                            !.run_flags = @ \cup {RunDurable(args.fsync)}]
                 \/ /\ op = "read"
                    /\ call' = [call EXCEPT ![p] =
                                  NewCall(p, "get", key, <<>>, FALSE, FALSE, "run")]
                    /\ pc' = [pc EXCEPT ![p] = "get_read"]
                    /\ hist' = [hist EXCEPT !.ncalls[p] = @ + 1]
                 \/ /\ op = "scan"
                    /\ call' = [call EXCEPT ![p] =
                                  NewCall(p, "scan", key, <<>>, FALSE, FALSE, "run")]
                    /\ pc' = [pc EXCEPT ![p] = "scan_read"]
                    /\ hist' = [hist EXCEPT !.ncalls[p] = @ + 1]
    /\ UNCHANGED <<args, scope, mem, disk, db, records, load, met, log, process>>

(***************************************************************************)
(* The metrics thread (main.rs:269-410).                                   *)
(***************************************************************************)
\* the difference used as it is, with no floor
NoFloor(x) == x

\* u64::max(1)
Max1(x) == IF x < 1 THEN 1 ELSE x

\* a tick that drains the latency accumulators before it loads the counters
DrainFirstOrder == <<"drain_w", "drain_r", "drain_s",
                     "load_w", "load_r", "load_s", "load_size", "json">>

\* the order of the tick's accesses to the shared atomics (main.rs:334-373)
MetOrder == <<"load_w", "load_r", "load_s", "load_size",
              "drain_w", "drain_r", "drain_s", "json">>

\* the step after step `at` of a tick
MetAfter(at) ==
    LET i == CHOOSE j \in 1..Len(MetOrder) : MetOrder[j] = at
    IN  IF i = Len(MetOrder) THEN "sleep" ELSE MetOrder[i + 1]

OfKind(set, k) == {e \in set : e[1] = k}

\* the calls whose final latency add (db.rs:198, 257) is among the adds
TimedOps(adds) == {<<e[1], e[2]>> : e \in {a \in adds : a[3] = 2}}

\* main.rs:281-299: File::create and the "system" record
MetCreate ==
    /\ Running
    /\ met.pc = "create"
    /\ log' = Append(log, "system")
    /\ met' = [met EXCEPT !.pc = "setup"]
    /\ UNCHANGED <<args, scope, mem, disk, db, pc, call, records, iters, load, process, hist>>

\* main.rs:301-323: the "setup" record, then prev_* = 0
MetSetup ==
    /\ Running
    /\ met.pc = "setup"
    /\ log' = Append(log, "setup")
    /\ met' = [met EXCEPT !.pc = "tick"]
    /\ UNCHANGED <<args, scope, mem, disk, db, pc, call, records, iters, load, process, hist>>

\* a tick whose failed sample only skips the loads of the counters
MetTickSkipsLoads ==
    /\ Running
    /\ met.pc = "tick"
    /\ met.ticks < MaxTicks
    /\ \E ok \in scope.du :
          met' = [met EXCEPT !.pc = IF ok THEN MetOrder[1] ELSE "drain_w",
                             !.ticks = @ + 1, !.du_ok = ok]
    /\ UNCHANGED <<args, scope, mem, disk, db, pc, call, records, iters, load, log, process, hist>>

\* main.rs:326: fs_extra::dir::get_size succeeds, or fails and the tick is skipped
MetTick ==
    /\ Running
    /\ met.pc = "tick"
    /\ met.ticks < MaxTicks
    /\ \E ok \in scope.du :
          met' = [met EXCEPT !.pc = IF ok THEN MetOrder[1] ELSE "sleep",
                             !.ticks = @ + 1, !.du_ok = ok]
    /\ UNCHANGED <<args, scope, mem, disk, db, pc, call, records, iters, load, log, process, hist>>

\* a tick that takes the counter with swap(0), as it takes the latency sums
MetTakeW ==
    /\ Running
    /\ met.pc = "load_w"
    /\ met' = [met EXCEPT !.pc = MetAfter("load_w"), !.tick.write_ops = db.write_ops,
                          !.tick.cnt = @ \cup OfKind(hist.uncounted, "w")]
    /\ db' = [db EXCEPT !.write_ops = 0]
    /\ hist' = [hist EXCEPT !.uncounted = @ \ OfKind(@, "w")]
    /\ UNCHANGED <<args, scope, mem, disk, pc, call, records, iters, load, log, process>>

\* main.rs:334: db.write_ops.load
MetLoadW ==
    /\ Running
    /\ met.pc = "load_w"
    /\ met' = [met EXCEPT !.pc = MetAfter("load_w"), !.tick.write_ops = db.write_ops,
                          !.tick.cnt = @ \cup OfKind(hist.uncounted, "w")]
    /\ hist' = [hist EXCEPT !.uncounted = @ \ OfKind(@, "w")]
    /\ UNCHANGED <<args, scope, mem, disk, db, pc, call, records, iters, load, log, process>>

\* main.rs:335: db.read_ops.load
MetLoadR ==
    /\ Running
    /\ met.pc = "load_r"
    /\ met' = [met EXCEPT !.pc = MetAfter("load_r"), !.tick.read_ops = db.read_ops,
                          !.tick.cnt = @ \cup OfKind(hist.uncounted, "r")]
    /\ hist' = [hist EXCEPT !.uncounted = @ \ OfKind(@, "r")]
    /\ UNCHANGED <<args, scope, mem, disk, db, pc, call, records, iters, load, log, process>>

\* main.rs:336: db.scan_ops.load
MetLoadS ==
    /\ Running
    /\ met.pc = "load_s"
    /\ met' = [met EXCEPT !.pc = MetAfter("load_s"), !.tick.scan_ops = db.scan_ops,
                          !.tick.cnt = @ \cup OfKind(hist.uncounted, "s")]
    /\ hist' = [hist EXCEPT !.uncounted = @ \ OfKind(@, "s")]
    /\ UNCHANGED <<args, scope, mem, disk, db, pc, call, records, iters, load, log, process>>

\* main.rs:338: db.real_data_size.load
MetLoadSize ==
    /\ Running
    /\ met.pc = "load_size"
    /\ met' = [met EXCEPT !.pc = MetAfter("load_size"), !.tick.size = db.real_data_size]
    /\ UNCHANGED <<args, scope, mem, disk, db, pc, call, records, iters, load, log, process, hist>>

\* main.rs:348-350: write_latency.fetch_min(0)
MetDrainW ==
    /\ Running
    /\ met.pc = "drain_w"
    /\ LET f == FetchMin(db.write_latency, 0)
       IN  /\ db' = [db EXCEPT !.write_latency = f.new]
           /\ met' = [met EXCEPT !.pc = MetAfter("drain_w"), !.tick.acc_w = f.ret,
                                 !.tick.lat = @ \cup OfKind(hist.in_acc, "w")]
           /\ hist' = [hist EXCEPT !.drained.w = @ + f.ret,
                                   !.in_acc = @ \ OfKind(@, "w")]
    /\ UNCHANGED <<args, scope, mem, disk, pc, call, records, iters, load, log, process>>

\* main.rs:351-353: read_latency.fetch_min(0)
MetDrainR ==
    /\ Running
    /\ met.pc = "drain_r"
    /\ LET f == FetchMin(db.read_latency, 0)
       IN  /\ db' = [db EXCEPT !.read_latency = f.new]
           /\ met' = [met EXCEPT !.pc = MetAfter("drain_r"), !.tick.acc_r = f.ret,
                                 !.tick.lat = @ \cup OfKind(hist.in_acc, "r")]
           /\ hist' = [hist EXCEPT !.drained.r = @ + f.ret,
                                   !.in_acc = @ \ OfKind(@, "r")]
    /\ UNCHANGED <<args, scope, mem, disk, pc, call, records, iters, load, log, process>>

\* main.rs:354-356: scan_latency.fetch_min(0)
MetDrainS ==
    /\ Running
    /\ met.pc = "drain_s"
    /\ LET f == FetchMin(db.scan_latency, 0)
       IN  /\ db' = [db EXCEPT !.scan_latency = f.new]
           /\ met' = [met EXCEPT !.pc = MetAfter("drain_s"), !.tick.acc_s = f.ret,
                                 !.tick.lat = @ \cup OfKind(hist.in_acc, "s")]
           /\ hist' = [hist EXCEPT !.drained.s = @ + f.ret,
                                   !.in_acc = @ \ OfKind(@, "s")]
    /\ UNCHANGED <<args, scope, mem, disk, pc, call, records, iters, load, log, process>>

\* main.rs:339-346, 358-364: the ratios' divisors and the average latencies,
\* from the tick's locals
Snapshot(m, prev, key_size, value_size) ==
    [type |-> "metrics",
     write_ops |-> m.write_ops,
     read_ops |-> m.read_ops,
     dataset_size |-> m.size,
     space_div |-> m.size,
     write_div |-> m.write_ops * (key_size + value_size),
     read_div |-> (m.read_ops + m.scan_ops) * (key_size + value_size),
     since_w |-> m.write_ops - prev.w,
     since_r |-> m.read_ops - prev.r,
     since_s |-> m.scan_ops - prev.s,
     div_w |-> Max1(m.write_ops - prev.w),
     div_r |-> Max1(m.read_ops - prev.r),
     div_s |-> Max1(m.scan_ops - prev.s),
     acc_w |-> m.acc_w, acc_r |-> m.acc_r, acc_s |-> m.acc_s,
     lat_scan_ops |-> m.scan_ops,
     cnt |-> m.cnt, lat |-> m.lat]

\* the tick's locals before the tick and after its block has ended
NoLocals == [write_ops |-> 0, read_ops |-> 0, scan_ops |-> 0, size |-> 0,
             acc_w |-> 0, acc_r |-> 0, acc_s |-> 0, cnt |-> {}, lat |-> {}]

NoJson == [type |-> "none"]

\* main.rs:366-401: the json! record, which reads db.delete_ops and db.scan_ops
\* again, then prev_* = the tick's loads, then the line is written
MetJson ==
    /\ Running
    /\ met.pc = "json"
    /\ log' = Append(log, "metrics")
    /\ met' = [met EXCEPT !.pc = MetAfter("json"),
                          !.json = Snapshot(met.tick, met.prev, args.key_size, args.value_size)
                                     @@ [delete_ops |-> db.delete_ops, scan_ops |-> db.scan_ops],
                          !.prev = [w |-> met.tick.write_ops, r |-> met.tick.read_ops,
                                    s |-> met.tick.scan_ops]]
    /\ LET counted == hist.ahead \cup met.tick.cnt
           timed == hist.owed \cup TimedOps(met.tick.lat)
       IN  hist' = [hist EXCEPT !.ahead = counted \ timed, !.owed = timed \ counted]
    /\ UNCHANGED <<args, scope, mem, disk, db, pc, call, records, iters, load, process>>

\* main.rs:406-407: Duration::from_secs_f32(args.minutes as f32 / 2.0), in
\* milliseconds
SleepMillis(minutes) == (minutes * 1000) \div 2

\* a loop that covers the setup record as well
MetSleepRestarts ==
    /\ Running
    /\ met.pc = "sleep"
    /\ met' = [met EXCEPT !.pc = "setup", !.tick = NoLocals, !.json = NoJson,
                          !.slept = SleepMillis(args.minutes)]
    /\ UNCHANGED <<args, scope, mem, disk, db, pc, call, records, iters, load, log, process, hist>>

\* main.rs:402-408: the tick's block ends (its locals are dropped), thread::sleep,
\* then the next tick
MetSleep ==
    /\ Running
    /\ met.pc = "sleep"
    /\ met' = [met EXCEPT !.pc = "tick", !.tick = NoLocals, !.json = NoJson,
                          !.slept = SleepMillis(args.minutes)]
    /\ UNCHANGED <<args, scope, mem, disk, db, pc, call, records, iters, load, log, process, hist>>

(***************************************************************************)
(* The initial state and the next-state relation.                          *)
(***************************************************************************)

InitAt(config, env, start) ==
    /\ args \in config
    /\ scope = env
    /\ mem = <<>>
    /\ disk = <<>>
    /\ db = [real_data_size |-> 0, write_ops |-> 0, read_ops |-> 0, delete_ops |-> 0,
             scan_ops |-> 0, write_latency |-> 0, read_latency |-> 0, scan_latency |-> 0]
    /\ pc = [p \in Procs |-> IF p = Main THEN start ELSE "unborn"]
    /\ call = [p \in Procs |-> NoCall]
    /\ records = [p \in Procs |-> 0]
    /\ iters = [p \in Procs |-> 0]
    /\ load = [idx |-> 0, x |-> 0, spawned |-> 0]
    /\ met = [pc |-> "unborn", ticks |-> 0, du_ok |-> TRUE, prev |-> [w |-> 0, r |-> 0, s |-> 0],
              tick |-> NoLocals, json |-> NoJson, slept |-> 0]
    /\ log = <<>>
    /\ process = "running"
    /\ hist = [done |-> [p \in Procs |-> [w |-> 0, r |-> 0, s |-> 0]],
               added |-> [w |-> 0, r |-> 0, s |-> 0],
               drained |-> [w |-> 0, r |-> 0, s |-> 0],
               in_acc |-> {}, uncounted |-> {}, ahead |-> {}, owed |-> {},
               written |-> <<>>, redb_run |-> 0,
               load_flags |-> {}, load_keys |-> {}, run_flags |-> {}, durable_keys |-> {},
               ncalls |-> [p \in Procs |-> 0], loaded |-> FALSE]

\* the state when main starts
InitWith(config, env) == InitAt(config, env, "start")

\* the command lines a specification starts from
Config(backends, workloads, threads, fsyncs, randoms, key_sizes) ==
    [backend : backends, workload : workloads, threads : threads,
     items : {Items}, value_size : {ValueSize}, key_size : key_sizes,
     fsync : fsyncs, random : randoms, minutes : {DefaultMinutes},
     compressible_value : {FALSE}]

\* what the environment supplies: start.elapsed(), fill_value's bytes, whether
\* get_size succeeds, and how many loop iterations the model follows, per thread
\* (ops) and over all threads (total)
OneValue(ops) == [elapsed |-> {1}, letters |-> {97}, du |-> {TRUE}, ops |-> ops, total |-> Threads * ops]
TwoValues(ops) == [elapsed |-> {1}, letters |-> {97, 98}, du |-> {TRUE}, ops |-> ops, total |-> Threads * ops]
TwoTimes(ops) == [elapsed |-> {1, 2}, letters |-> {97}, du |-> {TRUE}, ops |-> ops, total |-> Threads * ops]
\* the streams share the iterations: any of them may take any number of the ops
Shared(ops) == [elapsed |-> {1}, letters |-> {97}, du |-> {TRUE}, ops |-> ops, total |-> ops]
DuFails(ops) == [elapsed |-> {1}, letters |-> {97}, du |-> BOOLEAN, ops |-> ops, total |-> Threads * ops]

Init == InitWith(Config({"Fjall"}, Workloads, {Threads}, BOOLEAN, BOOLEAN, {DefaultKeySize}),
                 OneValue(MaxOps))

\* the steps of an insert that every backend and every caller takes
InsertCore(p) == InsertWrite(p) \/ InsertLatency(p) \/ InsertCount(p) \/ SizeAdd(p)

GetStep(p) == GetRead(p) \/ GetLatency(p) \/ GetCount(p)

ScanStep(p) == ScanRead(p) \/ ScanLatency(p) \/ ScanCount(p)

MainStep == MainStart \/ MainLoad \/ MainSpawn \/ MainArm

StreamStep(p) == StreamBegin(p) \/ StreamLoop(p)

MetStep ==
    \/ MetCreate \/ MetSetup \/ MetTick
    \/ MetLoadW \/ MetLoadR \/ MetLoadS \/ MetLoadSize
    \/ MetDrainW \/ MetDrainR \/ MetDrainS
    \/ MetJson \/ MetSleep

\* the workload engine: main and the streams of every workload
Next ==
    \/ MainStep
    \/ \E p \in Procs : InsertCore(p) \/ InsertSync(p) \/ GetStep(p) \/ ScanStep(p)
    \/ \E p \in Procs : StreamStep(p)

Spec == Init /\ [][Next]_vars

\* one stream together with the metrics thread
InitMetrics ==
    InitWith(Config({"Fjall"}, {"TaskA", "TaskD"}, {1}, {FALSE}, {FALSE}, {DefaultKeySize}),
             OneValue(ShortRun))

NextMetrics ==
    \/ MainStep
    \/ \E p \in Procs : InsertCore(p) \/ GetStep(p) \/ ScanStep(p)
    \/ \E p \in Procs : StreamStep(p)
    \/ MetStep

SpecMetrics == InitMetrics /\ [][NextMetrics]_vars

\* the metrics thread beside TaskC, whose loads and reads run on the main
\* thread, with calls that take different times
InitDrain ==
    InitWith(Config({"Fjall"}, {"TaskC"}, {1}, {FALSE}, {FALSE}, {DefaultKeySize}),
             TwoTimes(ShortRun))

NextDrain ==
    \/ MainStart \/ MainLoad \/ MainArm
    \/ InsertCore(Main) \/ GetStep(Main)
    \/ StreamStep(Main)
    \/ MetStep

SpecDrain == InitDrain /\ [][NextDrain]_vars

\* the metrics thread under run durations of 1..MaxMinutes minutes
InitSleep ==
    InitWith({[c EXCEPT !.minutes = m] :
                 c \in Config({"Fjall"}, {"TaskC"}, {1}, {FALSE}, {FALSE}, {DefaultKeySize}),
                 m \in 1..MaxMinutes},
             OneValue(ShortRun))

SpecSleep == InitSleep /\ [][NextDrain]_vars

\* the metrics thread beside TaskC with footprint samples that can fail
InitSkip ==
    InitWith(Config({"Fjall"}, {"TaskC"}, {1}, {FALSE}, {FALSE}, {DefaultKeySize}),
             DuFails(ShortRun))

SpecSkip == InitSkip /\ [][NextDrain]_vars

\* the load phase with values of 0..TextLen + 1 bytes, compressible or random
InitFill ==
    InitWith({[c EXCEPT !.value_size = n, !.compressible_value = b] :
                 c \in Config({"Fjall"}, {"TaskC"}, {1}, {FALSE}, {FALSE}, {DefaultKeySize}),
                 n \in 0..(TextLen + 1), b \in BOOLEAN},
             TwoValues(ShortRun))

NextFill == MainStart \/ MainLoad \/ InsertCore(Main)

SpecFill == InitFill /\ [][NextFill]_vars

\* concurrent streams reading and writing through one wrapper
InitCounters ==
    InitWith(Config({"Fjall"}, {"TaskA"}, {Threads}, {FALSE}, {FALSE}, {DefaultKeySize}),
             OneValue(ShortRun))

NextCounters ==
    \/ MainStep
    \/ \E p \in Procs : InsertCore(p) \/ GetStep(p)
    \/ \E p \in Procs : StreamStep(p)

SpecCounters == InitCounters /\ [][NextCounters]_vars

\* the load phase of every workload on every backend
InitLoad ==
    InitWith(Config(Backends, Workloads, {Threads}, BOOLEAN, BOOLEAN, {8, DefaultKeySize}),
             OneValue(MaxOps))

NextLoad == MainStart \/ MainLoad \/ InsertCore(Main) \/ InsertArmLatency(Main)

SpecLoad == InitLoad /\ [][NextLoad]_vars

(***************************************************************************)
(* The engine under a power loss.  What the engine has not made durable is *)
(* lost; engines opened with a flush interval (main.rs:132, 162, 241) also *)
(* make their writes durable in the background.                            *)
(***************************************************************************)
BackgroundFlush ==
    /\ Running
    /\ args.backend \in {"Fjall", "Sled", "CanopyDb"}
    /\ ~args.fsync
    /\ disk # mem
    /\ disk' = mem
    /\ UNCHANGED <<args, scope, mem, db, pc, call, records, iters, load, met, log, process, hist>>

\* the machine stops; the store reopened afterwards holds what was durable
Crash ==
    /\ Running
    /\ process' = "crashed"
    /\ mem' = disk
    /\ UNCHANGED <<args, scope, disk, db, pc, call, records, iters, load, met, log, hist>>

(***************************************************************************)
(* DatabaseWrapper::insert and ::get called directly: one caller, any key  *)
(* of a small set, any value, durable or not (db.rs:64, 206).              *)
(***************************************************************************)
ApiKeys == {Key("padded", FALSE, 0, k) : k \in 0..1}

ApiCall ==
    /\ Running
    /\ pc[Main] = "api"
    /\ iters[Main] < scope.ops
    /\ iters' = [iters EXCEPT ![Main] = @ + 1]
    /\ hist' = [hist EXCEPT !.ncalls[Main] = @ + 1]
    /\ \E key \in ApiKeys :
          \/ /\ \E v \in Values(args.value_size), durable \in BOOLEAN :
                   call' = [call EXCEPT ![Main] =
                              NewCall(Main, "insert", key, v, durable, FALSE, "api")]
             /\ pc' = [pc EXCEPT ![Main] = "ins_write"]
          \/ /\ call' = [call EXCEPT ![Main] =
                           NewCall(Main, "get", key, <<>>, FALSE, FALSE, "api")]
             /\ pc' = [pc EXCEPT ![Main] = "get_read"]
    /\ UNCHANGED <<args, scope, mem, disk, db, records, load, met, log, process>>

InitApi ==
    InitAt(Config(Backends, {"TaskA"}, {1}, BOOLEAN, {FALSE}, {DefaultKeySize}),
           TwoValues(MaxOps), "api")

NextApi ==
    \/ ApiCall
    \/ InsertWrite(Main) \/ InsertSync(Main) \/ InsertArmLatency(Main)
    \/ InsertLatency(Main) \/ InsertCount(Main)
    \/ GetStep(Main)
    \/ BackgroundFlush
    \/ Crash

SpecApi == InitApi /\ [][NextApi]_vars

\* one stream on every backend, with and without --fsync
InitStore ==
    InitWith(Config(Backends, {"TaskA", "TaskC", "TaskG"}, {1}, BOOLEAN, {FALSE},
                    {DefaultKeySize}),
             TwoValues(MaxOps))

NextStore ==
    \/ MainStep
    \/ \E p \in Procs : InsertCore(p) \/ InsertSync(p) \/ InsertArmLatency(p) \/ GetStep(p)
    \/ \E p \in Procs : StreamStep(p)
    \/ BackgroundFlush
    \/ Crash

SpecStore == InitStore /\ [][NextStore]_vars

\* the streams of every workload, with and without --fsync
InitRun ==
    InitWith(Config({"Fjall"}, Workloads, {Threads}, BOOLEAN, {FALSE}, {DefaultKeySize}),
             Shared(ShortRun))

SpecRun == InitRun /\ [][Next]_vars

\* the streams of every workload, in both key layouts
InitOrder ==
    InitWith(Config({"Fjall"}, Workloads, {Threads}, {FALSE}, BOOLEAN, {DefaultKeySize}),
             Shared(ShortRun))

NextOrder ==
    \/ MainStep
    \/ \E p \in Procs : InsertCore(p) \/ GetStep(p) \/ ScanStep(p)
    \/ \E p \in Procs : StreamStep(p)

SpecOrder == InitOrder /\ [][NextOrder]_vars

\* the appending workloads, every stream running several iterations
InitAppend ==
    InitWith(Config({"Fjall"}, {"TaskD", "TaskE", "TaskF", "TaskG", "TaskH"}, {Threads},
                    {FALSE}, BOOLEAN, {DefaultKeySize}),
             Shared(MaxOps))

SpecAppend == InitAppend /\ [][NextOrder]_vars

\* overwriting and appending streams over two engines, in both key layouts
InitSize ==
    InitWith(Config({"Fjall"}, {"TaskA", "TaskH"}, {Threads},
                    {FALSE}, BOOLEAN, {DefaultKeySize})
             \cup Config({"Nebari"}, {"TaskA", "TaskE"}, {Threads},
                         {FALSE}, {FALSE}, {DefaultKeySize}),
             Shared(MaxOps))

SpecSize == InitSize /\ [][NextOrder]_vars

\* the scanning workloads over a load phase of as many records as a scan returns
InitScan ==
    InitWith({[c EXCEPT !.items = ScanLimit] :
                 c \in Config({"Fjall"}, {"TaskD", "TaskE"}, {Threads}, {FALSE}, BOOLEAN,
                              {DefaultKeySize})},
             Shared(MaxOps))

NextScan ==
    \/ MainStep
    \/ \E p \in Procs : InsertCore(p) \/ ScanStep(p)
    \/ \E p \in Procs : StreamStep(p)

SpecScan == InitScan /\ [][NextScan]_vars

\* a load phase of one record for each user: ZipfDistribution::new over
\* records - 1 = 0 is an error, and the unwrap panics the stream that builds it
\* (main.rs:461-463, 771).  A panic unwinds the thread it happens in, which is
\* rustc's default and what t.join().unwrap() is written for.
InitFail ==
    InitWith({[c EXCEPT !.items = 1] :
                 c \in Config({"Fjall"}, {"TaskA", "TaskF", "TaskG", "TaskH"}, {Threads},
                              {FALSE}, {FALSE}, {DefaultKeySize})},
             Shared(MaxOps))

NextFail ==
    \/ MainStep \/ MainJoin \/ KillerFire
    \/ \E p \in Procs : InsertCore(p) \/ GetStep(p) \/ ScanStep(p)
    \/ \E p \in Procs : StreamStep(p)

SpecFail == InitFail /\ [][NextFail]_vars

\* streams that write, read and scan, and workload C, together with the killer
\* thread; only the killer thread is scheduled fairly, a stream may stay inside
\* any step for ever
InitDeadline ==
    InitWith(Config({"Fjall"}, {"TaskA", "TaskC", "TaskD"}, {Threads}, {FALSE}, {FALSE},
                    {DefaultKeySize}),
             Shared(MaxOps))

NextDeadline == NextOrder \/ KillerFire

SpecDeadline == InitDeadline /\ [][NextDeadline]_vars /\ WF_vars(KillerFire)

\* workload C on every backend, in both key layouts
InitReadOnly ==
    InitWith(Config(Backends, {"TaskC"}, {Threads}, {FALSE}, BOOLEAN, {DefaultKeySize}),
             TwoValues(MaxOps))

NextReadOnly ==
    \/ MainStart \/ MainLoad \/ MainArm
    \/ InsertCore(Main) \/ InsertArmLatency(Main)
    \/ GetStep(Main)
    \/ StreamStep(Main)

SpecReadOnly == InitReadOnly /\ [][NextReadOnly]_vars

\* concurrent writers on Redb without --fsync
InitRedb ==
    InitWith(Config({"Redb"}, {"TaskA"}, {Threads}, {FALSE}, {FALSE}, {DefaultKeySize}),
             OneValue(MaxOps))

SpecRedb == InitRedb /\ [][NextCounters]_vars

(***************************************************************************)
(* Properties.                                                             *)
(***************************************************************************)
\* operations of one kind that have returned, over all threads
SumDone(k) ==
    LET RECURSIVE Sum(_)
        Sum(S) == IF S = {} THEN 0
                  ELSE LET p == CHOOSE q \in S : TRUE IN hist.done[p][k] + Sum(S \ {p})
    IN  Sum(Procs)

\* the positions of an insert after the arm has returned
AfterArm == {"ins_armlat", "ins_lat", "ins_count"}

\* C1: the operation counters are exact under concurrency: write_ops and read_ops
\* equal the number of inserts and gets that have completed over all streams, so
\* N streams that each completed c gets leave read_ops = N * c.
CountersExact ==
    /\ db.write_ops = SumDone("w")
    /\ db.read_ops = SumDone("r")
    /\ \A c \in 0..scope.ops :
          (\A s \in Streams : hist.done[s].r = c) => db.read_ops = Threads * c
    /\ \A c \in 0..scope.ops :
          (\A s \in Streams : hist.done[s].w = c)
             => db.write_ops = hist.done[Main].w + Threads * c

\* every stream has completed all its gets, concurrently with the others
AllStreamsRead ==
    /\ \A s \in Streams : hist.done[s].r = scope.ops
    /\ db.read_ops = Threads * scope.ops

\* C2: a get of a key returns the value most recently inserted for that key, on
\* every backend.
RoundTrip ==
    \A p \in Procs :
       (pc[p] \in {"get_lat", "get_count"} /\ call[p].key \in DOMAIN hist.written)
          => call[p].item = <<hist.written[call[p].key]>>

\* C3: after a load phase of I items with value size V and no appends,
\* real_data_size is I * (key_size + V); stated for TaskC, whose load is I items.
LoadedSizeIsNominal ==
    (hist.loaded /\ args.workload = "TaskC")
       => db.real_data_size = args.items * (args.key_size + args.value_size)

\* C4: no metrics record is computed with a zero divisor: the space, write and
\* read amplification ratios of every record have a nonzero denominator.
AmpDivisorsNonzero ==
    met.json.type = "metrics"
       => /\ met.json.space_div # 0
          /\ met.json.write_div # 0
          /\ met.json.read_div # 0

\* C5: every average latency is divided by max(1, ops since the previous tick):
\* the divisor is at least 1 and the ops-since difference is never negative,
\* the previous tick's count never exceeding the current one.
LatencyDivisorAtLeastOne ==
    /\ met.prev.w <= db.write_ops
    /\ met.prev.r <= db.read_ops
    /\ met.prev.s <= db.scan_ops
    /\ met.json.type = "metrics"
          => /\ met.json.since_w >= 0 /\ met.json.since_r >= 0 /\ met.json.since_s >= 0
             /\ met.json.div_w >= 1 /\ met.json.div_r >= 1 /\ met.json.div_s >= 1
             /\ met.json.div_w = (IF met.json.since_w = 0 THEN 1 ELSE met.json.since_w)
             /\ met.json.div_r = (IF met.json.since_r = 0 THEN 1 ELSE met.json.since_r)
             /\ met.json.div_s = (IF met.json.since_s = 0 THEN 1 ELSE met.json.since_s)

\* a record of a tick with no operation since the previous tick, which had some
IdleTickAfterBusyTick ==
    /\ met.json.type = "metrics"
    /\ met.json.write_ops > 0
    /\ met.json.since_w = 0
    /\ met.json.since_r = 0
    /\ met.json.div_w = 1

\* C6 as stated: the latency sum and the ops-since count of a record cover the
\* same set of operations.
RecordCoversSameOps ==
    met.json.type = "metrics" => TimedOps(met.json.lat) = met.json.cnt

\* C6: every operation counted by a record has its latency in the sum drained by
\* that record or by an earlier one; the latency of an operation in flight at
\* the tick may be drained by a record earlier than the one that counts it,
\* never by a later one.
CountedOpsAreTimed == hist.ahead = {}

\* a tick is about to count an operation whose latency an earlier record drained
CountsEarlierTimedOp ==
    /\ met.pc = "json"
    /\ met.tick.cnt \cap hist.owed # {}

\* C7: draining is atomic: for each kind, what the ticks have drained plus what
\* the accumulator holds is what the operations have added, so no latency is
\* lost and none is drained twice.
DrainConserves ==
    /\ hist.drained.w + db.write_latency = hist.added.w
    /\ hist.drained.r + db.read_latency = hist.added.r
    /\ hist.drained.s + db.scan_latency = hist.added.s

\* a drain has taken a sum and an operation has added to the accumulator since
DrainedAndRefilled ==
    /\ hist.drained.w > 0
    /\ db.write_latency > 0
    /\ met.ticks = MaxTicks

RedbSyncsEveryPeriod == hist.redb_run < RedbSyncPeriod

\* C10: every insert of a load phase is non-durable, whatever --fsync is.
LoadNeverDurable ==
    /\ hist.load_flags \subseteq {FALSE}
    /\ \A p \in Procs :
          (call[p].kind = "insert" /\ call[p].phase = "load")
             => ~call[p].durable

\* a load phase has completed under --fsync
LoadedWithFsync ==
    /\ hist.loaded
    /\ args.fsync
    /\ hist.load_flags = {FALSE}
    /\ db.write_ops = LoadUsers * args.items

\* C11: every run-phase insert of every stream is issued with durable equal to
\* the --fsync option, in every workload that writes during the run phase.
RunDurableIsFsync ==
    /\ hist.run_flags \subseteq {args.fsync}
    /\ \A p \in Procs :
          (call[p].kind = "insert" /\ call[p].phase = "run")
             => call[p].durable = args.fsync

\* a stream has written in the run phase under --fsync, and durably, while
\* the other streams are in their loops
StreamWroteDurably ==
    /\ args.fsync
    /\ hist.run_flags = {TRUE}
    /\ \E s \in Streams : hist.done[s].w > 0
    /\ \A s \in Streams : pc[s] = "loop"

\* inserts the streams have completed
StreamWrites == SumDone("w") - hist.done[Main].w

\* C12: load precedes run: no stream exists and no run-phase operation is
\* issued before the load phase has completed threads * items inserts (items
\* for workload C), each on a distinct key; write_ops is threads * items when
\* the first stream starts, and items records exist under each user's label.
LoadPrecedesRun ==
    LET Labels == IF args.workload = "TaskC" THEN 1 ELSE args.threads
    IN
        /\ \A s \in Streams : pc[s] # "unborn" => hist.loaded
        /\ \A p \in Procs : call[p].phase = "run" => hist.loaded
        /\ hist.loaded
              => /\ hist.done[Main].w = Labels * args.items
                 /\ Cardinality(hist.load_keys) = Labels * args.items
                 /\ db.write_ops = Labels * args.items + StreamWrites
                 /\ \A idx \in 0..(Labels - 1) :
                       Cardinality({x \in 0..(args.items - 1) :
                                      LoadKey(args.workload, args.random, idx, x) \in DOMAIN mem})
                          = args.items

\* the last stream has been spawned and has not written yet, after a load in
\* the scrambled key layout
LastStreamStarts ==
    /\ args.random
    /\ args.workload = "TaskD"
    /\ pc[Threads - 1] = "begin"
    /\ db.write_ops = args.threads * args.items

\* the threads that are in a run loop: at its start, between two operations,
\* or inside an operation of the run phase
RunStreams ==
    {p \in Procs : \/ pc[p] \in {"begin", "loop"}
                   \/ call[p].phase = "run" /\ pc[p] # "panicked"}

\* C13: in every workload the run phase executes exactly N concurrent streams,
\* N being the configured thread count: once the deadline timer is started, N
\* threads are in a run loop.
RunsThreadsStreams ==
    process = "armed" => Cardinality(RunStreams) = args.threads

HChoices(op) == {c \in 0..99 : HOp(c) = op}

\* C15: of the 100 equally likely values of workload H's choice, 50 select a
\* point-read, 20 a scan and 30 a write, and of the 30 write values 10 are
\* appends and 20 are overwrites.
HTableAsSpecified ==
    args.workload = "TaskH" =>
       /\ Cardinality(HChoices("read")) = 50
       /\ Cardinality(HChoices("scan")) = 20
       /\ Cardinality(HChoices("append") \cup HChoices("overwrite")) = 30
       /\ Cardinality(HChoices("append")) = 10
       /\ Cardinality(HChoices("overwrite")) = 20

\* the streams in the middle of an append of the run phase
Appending == {p \in Streams : call[p].kind = "insert" /\ call[p].append /\ call[p].phase = "run"}

\* C16: in workloads D, E, F, G and H an append never lands on a key that is
\* already stored, whether loaded or appended by any stream, under every
\* interleaving and in both key layouts; no two streams append the same key.
AppendsNeverCollide ==
    /\ \A p \in Appending :
          pc[p] = "ins_write" => ArmKey(args.backend, call[p].key) \notin DOMAIN mem
    /\ \A p, q \in Appending : p # q => call[p].key # call[q].key

\* every stream has appended in scrambled mode, next to the others
AllStreamsAppended ==
    /\ args.random
    /\ args.workload = "TaskE"
    /\ \A p \in Streams : records[p] > args.items

\* the key of the record the stream appended last
LastAppended(p) ==
    Targets(args.workload, args.random, args.items, p, records[p] - 1, "append")

\* C17: in workloads D and E every scan a stream issues after it has appended
\* at least one record returns the record it appended immediately before.
ScanSeesLatest ==
    \A p \in Streams :
       (pc[p] \in {"scan_lat", "scan_count"} /\ records[p] > args.items)
          => LastAppended(p) \subseteq call[p].found

\* the keys written under the label of user idx, and the part after "label:"
KeysOf(idx) ==
    {k \in DOMAIN hist.written : /\ Len(k) > Len(UserId(idx))
                        /\ SubSeq(k, 1, Len(UserId(idx)) + 1) = UserId(idx) \o <<58>>}
NumberOf(idx, k) == SubSeq(k, Len(UserId(idx)) + 2, Len(k))

\* numeric order of two decimal numerals: a < b
NumLess(a, b) ==
    LET w == IF Len(a) > Len(b) THEN Len(a) ELSE Len(b)
    IN  LexLess(PadLeft(a, w), PadLeft(b, w))

\* C18: every key written by a partitioned workload, in the load or the run
\* phase, is the label of one of the users, ':' and ten decimal digits, and
\* within one partition byte-wise key order is the numeric order of the record
\* integers.
KeysArePadded ==
    Partitioned(args.workload) =>
       /\ \A k \in DOMAIN hist.written :
             \E idx \in 0..(args.threads - 1) :
                /\ k \in KeysOf(idx)
                /\ Len(NumberOf(idx, k)) = KeyPadWidth
                /\ \A i \in 1..KeyPadWidth : NumberOf(idx, k)[i] \in 48..57
       /\ \A idx \in 0..(args.threads - 1) : \A a, b \in KeysOf(idx) :
             LexLess(a, b) <=> NumLess(NumberOf(idx, a), NumberOf(idx, b))

\* the arguments map_key is tabulated for: the small record numbers, and the
\* numbers around every power of two below 2^31
MapKeyInputs ==
    (0..MapKeyRange) \cup {2147483647}
       \cup UNION {{2^i - 1, 2^i, 2^i + 1} : i \in 1..30}

MapKeyTable == [k \in MapKeyInputs |-> map_key(TRUE, k)]

\* the pairs of distinct arguments with one output
MapKeyCollisions ==
    {pair \in MapKeyInputs \X MapKeyInputs :
        pair[1] < pair[2] /\ MapKeyTable[pair[1]] = MapKeyTable[pair[2]]}

\* C19: in scrambled mode map_key is injective and deterministic: no two
\* distinct arguments have one output, the load phase of items records writes
\* items distinct keys, and the key computed again in the run phase for a
\* loaded record number is the key that was stored.
MapKeyInjective ==
    /\ MapKeyCollisions = {}
    /\ (args.random /\ hist.loaded) => Cardinality(hist.load_keys) = args.items
    /\ \A p \in Procs :
          (args.random /\ call[p].kind = "get" /\ pc[p] \in {"get_lat", "get_count"})
             => call[p].item # NoItem

\* a get of the run phase has found a record under its scrambled key
ScrambledKeyRead ==
    /\ args.random
    /\ pc[Main] = "get_lat"
    /\ call[Main].key # U64BeBytes(ToU32(1))
    /\ call[Main].item # NoItem

\* the streams that have panicked
Panicked == {s \in Streams : pc[s] = "panicked"}

\* C20: once a stream has panicked in the run phase the whole process is
\* aborted: from then on no other stream starts another operation.
PanicAbortsProcess ==
    [][Panicked # {}
          => \A q \in Streams : pc[q] = "loop" => pc'[q] \in {"loop", "panicked"}]_vars

\* C21: with backend Sled and --fsync the process aborts at startup for every
\* workload: the main thread never gets past the validation, the store is
\* never opened (the metrics thread that follows it never exists) and no
\* insert is issued.
SledFsyncFatalAtStartup ==
    (args.backend = "Sled" /\ args.fsync)
       => /\ pc[Main] \in {"start", "panicked"}
          /\ met.pc = "unborn"
          /\ hist.ncalls[Main] = 0
          /\ mem = <<>>

\* C22: once start_killer has been called the process terminates, whatever
\* the streams do: fairness of the killer thread alone is enough, also when
\* every stream stays inside an operation for ever.
DeadlineTerminates == (process = "armed") ~> ~Running

\* the process has exited while every stream was inside an operation
ExitedWithStreamsInCalls ==
    /\ process = "exited"
    /\ Partitioned(args.workload)
    /\ \A s \in Streams : pc[s] \in {"ins_write", "get_read", "scan_read"}

\* C23: the log is one "system" record, then one "setup" record, then only
\* "metrics" records: at every moment the lines written so far are a prefix
\* of that sequence, so no metrics record precedes the two others and neither
\* of them is written twice.
LogOrdered ==
    \A i \in 1..Len(log) :
       log[i] = (IF i = 1 THEN "system" ELSE IF i = 2 THEN "setup" ELSE "metrics")

\* both headers and a metrics record of every tick have been written
LogHasEveryTick ==
    /\ Len(log) = 2 + MaxTicks
    /\ met.ticks = MaxTicks

\* C24: for every run duration of at least one minute the metrics thread
\* sleeps run duration / 120 between two ticks, and never less than one second.
SleepIsDurationOver120 ==
    met.slept # 0
       => /\ met.slept = (args.minutes * 60 * 1000) \div 120
          /\ met.slept >= 1000

\* C25: no step of a sampling tick changes write_ops, read_ops, scan_ops,
\* delete_ops or real_data_size; of the state it shares with the streams a
\* tick changes the three latency accumulators only.
TickKeepsCounters ==
    [][MetStep
          => /\ db' = [db EXCEPT !.write_latency = db'.write_latency,
                                 !.read_latency = db'.read_latency,
                                 !.scan_latency = db'.scan_latency]
             /\ <<mem, disk, pc, call, records, iters, load, process>>'
                   = <<mem, disk, pc, call, records, iters, load, process>>]_vars

\* a tick has read counters that were not zero, drained a latency sum and
\* written its record
TickReadCounters ==
    /\ met.pc = "sleep"
    /\ met.json.type = "metrics"
    /\ met.json.write_ops > 0
    /\ met.json.acc_w > 0
    /\ db.write_ops >= met.json.write_ops

\* the keys the load phase writes for user idx
LoadedFor(idx) == {LoadKey(args.workload, args.random, idx, x) : x \in 0..(args.items - 1)}

\* the run phase of A and B stays within the loaded keys
RunStaysInLoaded ==
    /\ \A p \in Streams : call[p].phase = "run" => call[p].key \in LoadedFor(p)
    /\ hist.loaded => DOMAIN hist.written = hist.load_keys
    /\ \A p \in Streams :
          (call[p].kind = "get" /\ pc[p] \in {"get_lat", "get_count"})
             => call[p].item # NoItem

\* C26: in workloads A and B every run-phase read and write of a stream uses
\* a key loaded for that stream's partition, the set of stored keys does not
\* change after the load, every read finds its key, and each of the items
\* loaded records of the partition can be selected.
RunTargetsAllLoaded ==
    args.workload \in {"TaskA", "TaskB"}
       => /\ RunStaysInLoaded
          /\ \A p \in Streams : \A op \in Ops(args.workload) :
                Targets(args.workload, args.random, args.items, p, args.items, op)
                   = LoadedFor(p)

\* the streams inside a point-read, or inside a run-phase insert that is not
\* an append
Revisiting ==
    {p \in Streams : /\ call[p].phase = "run"
                     /\ \/ call[p].kind = "get"
                        \/ call[p].kind = "insert" /\ ~call[p].append}

\* C27: in workloads F, G and H every point-read and every overwrite of a
\* stream targets a record number in 0..records - 1 of that stream, a key
\* that the load phase or the stream itself has inserted: the read finds the
\* key and the overwrite lands on a stored key.
RevisitsOwnRecords ==
    args.workload \in {"TaskF", "TaskG", "TaskH"}
       => \A p \in Revisiting :
             /\ \E x \in 0..(records[p] - 1) :
                   call[p].key = Key("padded", args.random, p, x)
             /\ (call[p].kind = "get" /\ pc[p] \in {"get_lat", "get_count"})
                   => call[p].item # NoItem
             /\ (call[p].kind = "insert" /\ pc[p] = "ins_write")
                   => ArmKey(args.backend, call[p].key) \in DOMAIN mem

\* a stream of H has read the record it appended itself
ReadOwnAppend ==
    /\ args.workload = "TaskH"
    /\ args.random
    /\ \E p \in Streams :
          /\ call[p].kind = "get"
          /\ pc[p] = "get_lat"
          /\ records[p] > args.items
          /\ call[p].key = Key("padded", TRUE, p, args.items)
          /\ call[p].item # NoItem

\* C28: a metrics record is one snapshot: the scan_ops it carries is the
\* scan_ops value its read_amp divisor and its average scan latency were
\* computed from, under every interleaving with the streams.
RecordIsOneSnapshot ==
    met.json.type = "metrics"
       => /\ met.json.scan_ops = met.json.lat_scan_ops
          /\ met.json.read_div
                = (met.json.read_ops + met.json.scan_ops) * (args.key_size + args.value_size)

\* C29: fill_value terminates and fills the whole buffer in both modes and
\* for every value_size: every run of it ends, every iteration of the
\* compressible loop writes at least one byte, and the value handed to every
\* insert has exactly value_size bytes.
FillValueFills ==
    /\ \A r \in fill_value(args.compressible_value, args.value_size) :
          /\ r.ended
          /\ ~r.stalled
          /\ r.iters <= args.value_size
          /\ Len(r.val) = args.value_size
    /\ \A p \in Procs : call[p].kind = "insert" => Len(call[p].val) = args.value_size

\* an insert carries a compressible value that took several iterations to fill
FilledInSeveralWrites ==
    /\ args.compressible_value
    /\ args.value_size > TextLen
    /\ pc[Main] = "ins_lat"
    /\ \E r \in fill_value(TRUE, args.value_size) : r.iters > 1 /\ r.val = call[Main].val

\* no thread is between the start of an insert and the bookkeeping that
\* follows its return
NoInsertInFlight ==
    \A p \in Procs :
       pc[p] \notin {"ins_write", "ins_sync", "ins_armlat", "ins_lat", "ins_count", "size_add"}

\* key bytes + value bytes of the pairs handed to insert, one pair per distinct key
LogicalBytes ==
    SumOver([k \in DOMAIN hist.written |-> ByteLen(k) + ByteLen(hist.written[k])],
            DOMAIN hist.written)

LatencyAdds(kind, id) == {e \in OfKind(hist.in_acc, kind) : e[2] = id}

\* the thread's current call has run its common tail (db.rs:198-203, 257-262)
Returned(p) == pc[p] = "api" /\ call[p].kind \in {"insert", "get"}

\* C31: on every backend one insert adds to write_latency once and increments
\* write_ops once, and one get adds to read_latency once and increments
\* read_ops once: no call has added twice, a returned call has added once,
\* and each counter is the number of returned calls of its kind.
OneLatencyAddPerCall ==
    /\ \A e \in hist.in_acc : Cardinality(LatencyAdds(e[1], e[2])) = 1
    /\ \A p \in Procs :
          Returned(p) =>
             Cardinality(LatencyAdds(IF call[p].kind = "insert" THEN "w" ELSE "r",
                                     call[p].id)) = 1
    /\ db.write_ops = SumOver([p \in Procs |-> hist.done[p].w], Procs)
    /\ db.read_ops = SumOver([p \in Procs |-> hist.done[p].r], Procs)

\* C32: a tick whose footprint sample fails emits no record and changes
\* nothing: no step of that tick touches a counter or a latency accumulator,
\* the log or prev_write_ops, prev_read_ops, prev_scan_ops, so the next
\* successful tick reports the span since the last emitted record.
SkippedTickChangesNothing ==
    [][(MetStep /\ ~met'.du_ok) =>
          /\ db' = db
          /\ log' = log
          /\ met'.prev = met.prev
          /\ met'.json = NoJson
          /\ hist'.drained = hist.drained]_vars

\* after a tick that was skipped while inserts went on, the next tick has
\* emitted the first metrics record, which covers every insert so far
RecordAfterSkippedTick ==
    /\ met.ticks = 2
    /\ met.du_ok
    /\ met.pc = "sleep"
    /\ log = <<"system", "setup", "metrics">>
    /\ met.json.type = "metrics"
    /\ met.json.since_w = db.write_ops
    /\ met.json.since_w = args.items
    /\ met.json.acc_w = hist.added.w

\* the load phase has written every record of every user
LoadComplete ==
    /\ hist.loaded
    /\ load.idx = LoadUsers
    /\ call[Main].phase # "load" \/ pc[Main] \notin {"ins_write", "ins_sync", "ins_armlat",
                                                      "ins_lat", "ins_count", "size_add", "load"}
    /\ hist.load_keys \subseteq DOMAIN mem
    /\ Cardinality(hist.load_keys) = LoadUsers * args.items
    /\ db.real_data_size >= LoadUsers * args.items * args.value_size

\* C33: the killer thread is started only after the load phase has completed
\* and, in the multi-stream workloads, after every stream has been spawned, so
\* the forced exit never happens while the load phase is writing.
ArmedAfterLoad ==
    process \in {"armed", "exited"} =>
       /\ LoadComplete
       /\ Partitioned(args.workload) =>
             /\ load.spawned = args.threads
             /\ \A s \in Streams : pc[s] # "unborn"

\* the forced exit has happened in a multi-stream workload, after the load
\* and the spawn of every stream
ExitedAfterLoad ==
    /\ process = "exited"
    /\ Partitioned(args.workload)
    /\ pc[Main] = "join"
    /\ Cardinality(DOMAIN mem) = args.threads * args.items

\* C34: whenever a stream builds a zipfian distribution its population
\* (items - 1 in TaskA, TaskB, TaskC; records - 1 in TaskF, TaskG, TaskH) is
\* at least 1 and the subtraction does not go below 0, so no stream fails at
\* the construction.
ZipfPopulationPositive ==
    /\ \A p \in Procs :
          (pc[p] = "begin" /\ args.workload \in {"TaskA", "TaskB", "TaskC"})
             => args.items >= 1 /\ ZipfNew(args.items - 1)
    /\ \A p \in Procs :
          (pc[p] = "loop" /\ \E op \in Ops(args.workload) : BuildsZipf(args.workload, op))
             => records[p] >= 1 /\ ZipfNew(records[p] - 1)
    /\ \A p \in Procs : pc[p] # "panicked"

====
